---------------------------- MODULE Spec2Model ----------------------------
(***************************************************************************)
(* A model of onebrc: the Temperature fixed-point type and its two         *)
(* parsers (src/src/temperature.rs) and the row parser, the Stats          *)
(* accumulator, the ResultsMap and the fold/reduce of process_data with    *)
(* main's finalisation (src/src/main.rs).                                  *)
(*                                                                         *)
(* Bytes are their u8 values, byte strings are sequences of bytes.         *)
(***************************************************************************)
EXTENDS Integers, Sequences, FiniteSets, TLC

(***************************************************************************)
(* Bounds of the model.                                                    *)
(***************************************************************************)
\* longest byte string handed to the parsers by the parser specification
MaxLen == 4

(***************************************************************************)
(* Byte literals of the source.                                            *)
(***************************************************************************)
Minus == 45
Dot == 46
Zero == 48
Nine == 57
Semi == 59
Newline == 10

\* the largest i32; Temperature.tenths is an i32
I32Max == 2147483647
I32Min == (-I32Max) - 1
\* the largest u32 is 2 * I32Max + 1; Stats.count is a u32

IsDigit(b) == Zero <= b /\ b <= Nine

(***************************************************************************)
(* i32 arithmetic.  An overflowing operation panics in a build with        *)
(* overflow checks and wraps modulo 2^32 otherwise: every operation comes  *)
(* as the wrapped value and the overflow condition.  The conditions are    *)
(* written so that no intermediate value leaves the 32-bit range.          *)
(***************************************************************************)
AddOvf(a, b) ==
    \/ (b > 0 /\ a > I32Max - b)
    \/ (b < 0 /\ a < I32Min - b)

Add32(a, b) ==
    IF b > 0 /\ a > I32Max - b THEN ((a - I32Max) - 1) + ((b - I32Max) - 1)
    ELSE IF b < 0 /\ a < I32Min - b THEN (a - I32Min) + (b - I32Min)
    ELSE a + b

NegOvf(a) == a = I32Min

Neg32(a) == IF a = I32Min THEN I32Min ELSE -a

\* tenths * 10, by doubling; an intermediate overflow is an overflow of the
\* product, and the wrapped sums compose to the wrapped product
Mul10Ovf(t) == t > I32Max \div 10 \/ t < -(I32Max \div 10)

Mul10(t) ==
    LET x2 == Add32(t, t)
        x4 == Add32(x2, x2)
        x8 == Add32(x4, x4)
    IN  Add32(x8, x2)

\* (tenths * 10) + d, the shift of a new least significant digit
ShiftOvf(t, d) == Mul10Ovf(t) \/ AddOvf(Mul10(t), d)

Shift(t, d) == Add32(Mul10(t), d)

(***************************************************************************)
(* impl fmt::Display for Temperature                                       *)
(***************************************************************************)
\* the decimal digits of a natural number, as {} formats an integer
RECURSIVE FmtNat(_)
FmtNat(n) ==
    IF n < 10 THEN <<Zero + n>>
    ELSE FmtNat(n \div 10) \o <<Zero + (n % 10)>>

\* i32 / 10 and i32 % 10 of Rust truncate towards zero
TruncDiv10(n) ==
    IF n >= 0 \/ n % 10 = 0 THEN n \div 10 ELSE (n \div 10) + 1

TruncRem10(n) == n - 10 * TruncDiv10(n)

\* {} of an i32; a negative number (only the wrapped abs of i32::MIN gives
\* one here) prints its sign first
FmtInt(n) ==
    IF n >= 0 THEN FmtNat(n)
    ELSE IF n > -10 THEN <<Minus, Zero - n>>
    ELSE <<Minus>> \o FmtNat(-TruncDiv10(n)) \o <<Zero - TruncRem10(n)>>

\* i32::abs: wraps to i32::MIN at i32::MIN
Abs32(n) == IF n < 0 THEN Neg32(n) ELSE n

\* a Display that leaves out the abs(): the modular arithmetic on a negative
\* value
Temperature_fmt_no_abs(tenths) ==
    LET sign == IF tenths < 0 THEN <<Minus>> ELSE <<>>
    IN  sign \o FmtInt(TruncDiv10(tenths)) \o <<Dot>> \o FmtInt(TruncRem10(tenths))

\* a Display that formats the signed quotient and takes the sign from it:
\* the sign of a value between -0.9 and -0.1 is lost
Temperature_fmt_signed_whole(tenths) ==
    FmtInt(TruncDiv10(tenths)) \o <<Dot>> \o FmtInt(TruncRem10(Abs32(tenths)))

Temperature_fmt(tenths) ==
    LET sign  == IF tenths < 0 THEN <<Minus>> ELSE <<>>
        whole == TruncDiv10(Abs32(tenths))
        frac  == TruncRem10(Abs32(tenths))
    IN  sign \o FmtInt(whole) \o <<Dot>> \o FmtInt(frac)

(***************************************************************************)
(* Temperature::parse, the relaxed parser                                  *)
(***************************************************************************)
\* the loop body: one byte, on the accumulator [tenths, negative, ovf]
ParseByte(acc, b) ==
    IF b = Minus THEN [acc EXCEPT !.negative = TRUE]
    ELSE IF IsDigit(b)
         THEN [acc EXCEPT !.tenths = Shift(acc.tenths, b - Zero),
                          !.ovf = acc.ovf \/ ShiftOvf(acc.tenths, b - Zero)]
    ELSE acc

RECURSIVE ParseLoop(_, _, _)
ParseLoop(s, i, acc) ==
    IF i > Len(s) THEN acc ELSE ParseLoop(s, i + 1, ParseByte(acc, s[i]))

\* a parse that forgets the sign it remembered
Temperature_parse_no_sign(x) ==
    LET acc == ParseLoop(x, 1, [tenths |-> 0, negative |-> FALSE, ovf |-> FALSE])
    IN  [tenths |-> acc.tenths, ovf |-> acc.ovf]

\* the result: the value, and whether an operation overflowed on the way
Temperature_parse(x) ==
    LET acc == ParseLoop(x, 1, [tenths |-> 0, negative |-> FALSE, ovf |-> FALSE])
    IN  [tenths |-> IF acc.negative THEN Neg32(acc.tenths) ELSE acc.tenths,
         ovf    |-> acc.ovf \/ (acc.negative /\ NegOvf(acc.tenths))]

(***************************************************************************)
(* Temperature::parse_strict                                               *)
(***************************************************************************)
\* one step of the match on (state, b); state "Err" is the early return
StrictByte(acc, b) ==
    CASE acc.state = "Sign" /\ b = Minus ->
            [acc EXCEPT !.negative = TRUE, !.state = "Digit"]
      [] acc.state = "Sign" /\ IsDigit(b) ->
            [acc EXCEPT !.tenths = b - Zero, !.state = "Digit"]
      [] acc.state = "Sign" ->
            [acc EXCEPT !.state = "Err", !.msg = "invalid character"]
      [] acc.state = "Digit" /\ IsDigit(b) ->
            [acc EXCEPT !.tenths = Shift(acc.tenths, b - Zero),
                        !.ovf = acc.ovf \/ ShiftOvf(acc.tenths, b - Zero)]
      [] acc.state = "Digit" /\ b = Dot ->
            [acc EXCEPT !.state = "Frac"]
      [] acc.state = "Digit" ->
            [acc EXCEPT !.state = "Err", !.msg = "invalid character"]
      [] acc.state = "Frac" /\ IsDigit(b) ->
            [acc EXCEPT !.tenths = Shift(acc.tenths, b - Zero),
                        !.ovf = acc.ovf \/ ShiftOvf(acc.tenths, b - Zero),
                        !.state = "Done"]
      [] acc.state = "Frac" ->
            [acc EXCEPT !.state = "Err", !.msg = "invalid character"]
      [] acc.state = "Done" ->
            [acc EXCEPT !.state = "Err", !.msg = "trailing characters"]

RECURSIVE StrictLoop(_, _, _)
StrictLoop(s, i, acc) ==
    IF i > Len(s) \/ acc.state = "Err" THEN acc
    ELSE StrictLoop(s, i + 1, StrictByte(acc, s[i]))

\* the result: Ok(tenths) or Err(msg), and whether an operation overflowed
\* before the return
parse_strict(s) ==
    LET acc == StrictLoop(s, 1, [state |-> "Sign", negative |-> FALSE,
                                 tenths |-> 0, ovf |-> FALSE, msg |-> ""])
    IN  IF acc.state = "Err"
        THEN [kind |-> "Err", tenths |-> 0, msg |-> acc.msg, ovf |-> acc.ovf]
        ELSE IF acc.state # "Done"
        THEN [kind |-> "Err", tenths |-> 0, msg |-> "truncated input",
              ovf |-> acc.ovf]
        ELSE [kind |-> "Ok",
              tenths |-> IF acc.negative THEN Neg32(acc.tenths) ELSE acc.tenths,
              msg |-> "",
              ovf |-> acc.ovf \/ (acc.negative /\ NegOvf(acc.tenths))]


(***************************************************************************)
(* impl ops::AddAssign and impl ops::Div<u32> for Temperature              *)
(***************************************************************************)
\* self.tenths += rhs.tenths, wrapped; AddOvf tells the overflow
add_assign(a, b) == Add32(a, b)

\* a division that rounds a half up, as floor(x + 0.5) does
Temperature_div_half_up(tenths, rhs) ==
    IF rhs = 0 THEN 0
    ELSE LET q == tenths \div rhs
             r == tenths % rhs
         IN  IF r >= rhs - r THEN q + 1 ELSE q

\* ((tenths as f64) / (rhs as f64)).round() as i32.  Both operands are exact
\* in f64 and the quotient of two 32-bit integers is never rounded onto or
\* across a half (a quotient that is not a half is at least 1/(2 rhs) away
\* from one, more than its f64 error), so round() sees the exact quotient's
\* side: the nearest integer, a half going away from zero.  A zero divisor
\* gives an infinity or a NaN, which `as i32` saturates or makes 0.
Temperature_div(tenths, rhs) ==
    IF rhs = 0
    THEN (IF tenths > 0 THEN I32Max ELSE IF tenths < 0 THEN I32Min ELSE 0)
    ELSE LET q == tenths \div rhs      \* the floor of the quotient
             r == tenths % rhs         \* 0 <= r < rhs
         IN  IF tenths >= 0
             THEN (IF r >= rhs - r THEN q + 1 ELSE q)
             ELSE (IF r > rhs - r THEN q + 1 ELSE q)

(***************************************************************************)
(* struct Stats                                                            *)
(***************************************************************************)
Stats_new(temp) == [total |-> temp, count |-> 1, min |-> temp, max |-> temp]

finalize(self) ==
    [mean |-> Temperature_div(self.total, self.count), min |-> self.min, max |-> self.max]

\* an update_row that never raises max
update_row_keeps_max(self, temp) ==
    [total |-> add_assign(self.total, temp),
     count |-> self.count + 1,
     min   |-> IF temp < self.min THEN temp ELSE self.min,
     max   |-> self.max]

update_row(self, temp) ==
    [total |-> add_assign(self.total, temp),
     count |-> self.count + 1,
     min   |-> IF temp < self.min THEN temp ELSE self.min,
     max   |-> IF temp > self.max THEN temp ELSE self.max]

\* an update_stats that leaves the count alone
update_stats_keeps_count(self, other) ==
    [total |-> add_assign(self.total, other.total),
     count |-> self.count,
     min   |-> IF other.min < self.min THEN other.min ELSE self.min,
     max   |-> IF other.max > self.max THEN other.max ELSE self.max]

\* an update_stats that leaves the receiver's minimum alone
update_stats_keeps_min(self, other) ==
    [total |-> add_assign(self.total, other.total),
     count |-> self.count + other.count,
     min   |-> self.min,
     max   |-> IF other.max > self.max THEN other.max ELSE self.max]

update_stats(self, other) ==
    [total |-> add_assign(self.total, other.total),
     count |-> self.count + other.count,
     min   |-> IF other.min < self.min THEN other.min ELSE self.min,
     max   |-> IF other.max > self.max THEN other.max ELSE self.max]

(***************************************************************************)
(* struct ResultsMap: a map from city (a byte string) to Stats, here a     *)
(* function whose domain is the set of keys.                               *)
(***************************************************************************)
\* ResultsMap::default()
EmptyMap == << >>

IsEmpty(m) == DOMAIN m = {}

\* an ingest that starts a fresh map for a city it has not seen
ingest_fresh_map(self, row) ==
    IF row.city \in DOMAIN self
    THEN [self EXCEPT ![row.city] = update_row(self[row.city], row.temp)]
    ELSE [k \in {row.city} |-> Stats_new(row.temp)]

\* a row is [city, temp]
ingest(self, row) ==
    IF row.city \in DOMAIN self
    THEN [self EXCEPT ![row.city] = update_row(self[row.city], row.temp)]
    ELSE [k \in DOMAIN self \cup {row.city} |->
            IF k = row.city THEN Stats_new(row.temp) ELSE self[k]]

\* a merge whose special case returns without taking the other map
merge_drops_other(self, other) ==
    IF IsEmpty(self) THEN self
    ELSE [k \in DOMAIN self \cup DOMAIN other |->
            IF k \in DOMAIN self /\ k \in DOMAIN other
            THEN update_stats(self[k], other[k])
            ELSE IF k \in DOMAIN self THEN self[k] ELSE other[k]]

\* a merge that inserts the other entry over the receiver's
merge_overwrites(self, other) ==
    IF IsEmpty(self) THEN other
    ELSE [k \in DOMAIN self \cup DOMAIN other |->
            IF k \in DOMAIN other THEN other[k] ELSE self[k]]

\* the loop visits every entry of `other` once, and an entry touches only its
\* own key, so the iteration order of the hash map does not show
merge(self, other) ==
    IF IsEmpty(self) THEN other
    ELSE [k \in DOMAIN self \cup DOMAIN other |->
            IF k \in DOMAIN self /\ k \in DOMAIN other
            THEN update_stats(self[k], other[k])
            ELSE IF k \in DOMAIN self THEN self[k] ELSE other[k]]

\* impl std::ops::Add for ResultsMap
add(self, rhs) == merge(self, rhs)

\* impl std::iter::Sum for ResultsMap, on a sequence of maps
RECURSIVE SumFrom(_, _, _)
SumFrom(acc, maps, i) ==
    IF i > Len(maps) THEN acc ELSE SumFrom(add(acc, maps[i]), maps, i + 1)

sum(maps) == IF Len(maps) = 0 THEN EmptyMap ELSE SumFrom(maps[1], maps, 2)

(***************************************************************************)
(* Row::parse                                                              *)
(***************************************************************************)
\* s.iter().position(|b| *b == b';'): the first index (from 1 here), 0 for None
RECURSIVE PositionFrom(_, _)
PositionFrom(s, i) ==
    IF i > Len(s) THEN 0
    ELSE IF s[i] = Semi THEN i
    ELSE PositionFrom(s, i + 1)

\* a Row::parse that takes position 0 where there is no ';' (unwrap_or(0))
Row_parse_or_zero(x) ==
    LET p == PositionFrom(x, 1)
    IN  IF p = 0
        THEN [some |-> TRUE, city |-> << >>, temp |-> Temperature_parse(x).tenths]
        ELSE [some |-> TRUE,
              city |-> SubSeq(x, 1, p - 1),
              temp |-> Temperature_parse(SubSeq(x, p, Len(x))).tenths]

\* a Row::parse that hands the whole line to Temperature::parse
Row_parse_whole_line(x) ==
    LET p == PositionFrom(x, 1)
    IN  IF p = 0 THEN [some |-> FALSE, city |-> << >>, temp |-> 0]
        ELSE [some |-> TRUE,
              city |-> SubSeq(x, 1, p - 1),
              temp |-> Temperature_parse(x).tenths]

\* None, or Some(Row): split_at leaves the ';' at the head of the part handed
\* to Temperature::parse
Row_parse(x) ==
    LET p == PositionFrom(x, 1)
    IN  IF p = 0 THEN [some |-> FALSE, city |-> << >>, temp |-> 0]
        ELSE [some |-> TRUE,
              city |-> SubSeq(x, 1, p - 1),
              temp |-> Temperature_parse(SubSeq(x, p, Len(x))).tenths]

(***************************************************************************)
(* process_data, single-threaded                                           *)
(***************************************************************************)
\* data.split(|&b| b == b'\n'): the lines between the newline bytes; n
\* newlines give n + 1 lines, the last one empty when the data ends with one
RECURSIVE SplitFrom(_, _, _)
SplitFrom(data, i, cur) ==
    IF i > Len(data) THEN <<cur>>
    ELSE IF data[i] = Newline THEN <<cur>> \o SplitFrom(data, i + 1, << >>)
    ELSE SplitFrom(data, i + 1, Append(cur, data[i]))

SplitLines(data) == SplitFrom(data, 1, << >>)

\* a fold closure that ingests whatever Row::parse left, Some or None
FoldLineAlways(results, line) ==
    LET row == Row_parse(line)
    IN  ingest(results, [city |-> row.city, temp |-> row.temp])

\* the fold closure: one line into the accumulator
FoldLine(results, line) ==
    LET row == Row_parse(line)
    IN  IF row.some THEN ingest(results, [city |-> row.city, temp |-> row.temp])
        ELSE results

RECURSIVE FoldFrom(_, _, _)
FoldFrom(results, lines, i) ==
    IF i > Len(lines) THEN results
    ELSE FoldFrom(FoldLine(results, lines[i]), lines, i + 1)

process_data(data) == FoldFrom(EmptyMap, SplitLines(data), 1)

(***************************************************************************)
(* State.                                                                  *)
(***************************************************************************)
VARIABLES
    \* the build: whether integer overflow panics (the profile's
    \* overflow-checks, on in a debug and a test build) or wraps
    overflow_checks,
    \* the parsers: the byte string, the outcome of parse_strict, the outcome
    \* of parse, and the Display rendering of the strict result
    s, strict, fast, shown,
    \* the outcome of Row::parse on the byte string, and a Temperature to
    \* display
    row, t,
    \* one Stats: the accumulator, the values it has incorporated (history),
    \* its FinalStats, and whether an addition into it has overflowed
    \* ("no", "wrapped" or "panicked")
    st, hist, fin, overflowed,
    \* the run of main: the input buffer, the work units of the fold/reduce,
    \* the map process_data returned, main's position, the summary vector and
    \* the bytes printed
    data, units, merged_results, pc, summary_results, output

parseVars == <<overflow_checks, s, strict, fast, shown, row, t>>
statsVars == <<st, hist, fin, overflowed>>
mainVars  == <<data, units, merged_results, pc, summary_results, output>>
vars == <<overflow_checks, s, strict, fast, shown, row, t, st, hist, fin, overflowed,
          data, units, merged_results, pc, summary_results, output>>

NoResult == [kind |-> "none", tenths |-> 0, msg |-> ""]
NoFinal  == [some |-> FALSE, mean |-> 0, min |-> 0, max |-> 0]
NoRow    == [kind |-> "none", some |-> FALSE, city |-> << >>, temp |-> 0]

ParseIdle ==
    /\ overflow_checks = FALSE
    /\ s = << >> /\ strict = NoResult /\ fast = NoResult /\ shown = << >>
    /\ row = NoRow /\ t = 0
StatsIdle == st = Stats_new(0) /\ hist = << >> /\ fin = NoFinal /\ overflowed = "no"
MainIdle ==
    /\ data = << >> /\ units = {} /\ merged_results = EmptyMap
    /\ pc = "idle" /\ summary_results = << >> /\ output = << >>

(***************************************************************************)
(* The parsers on bounded byte strings.                                    *)
(***************************************************************************)
\* '-', '.', '0', '1', '9', ';', 'a'
ParseAlphabet == {Minus, Dot, Zero, Zero + 1, Nine, Semi, 97}

\* every byte string over the alphabet, up to n bytes
BytesUpTo(n) == UNION {[1..k -> ParseAlphabet] : k \in 0..n}

\* "123456789.0" (test_temperature), "214748364.7" = i32::MAX tenths,
\* "214748364.8" and "-214748364.8", one past it, and "-999999999.9"
LongInputs ==
    { <<49, 50, 51, 52, 53, 54, 55, 56, 57, 46, 48>>,
      <<50, 49, 52, 55, 52, 56, 51, 54, 52, 46, 55>>,
      <<50, 49, 52, 55, 52, 56, 51, 54, 52, 46, 56>>,
      <<45, 50, 49, 52, 55, 52, 56, 51, 54, 52, 46, 56>>,
      <<45, 57, 57, 57, 57, 57, 57, 57, 57, 57, 46, 57>> }

\* what a call gives: a panic when an operation overflowed and the build
\* checks overflow, the (wrapped) result otherwise
Outcome(r, checks) ==
    IF r.ovf /\ checks
    THEN [kind |-> "panic", tenths |-> 0, msg |-> ""]
    ELSE [kind |-> r.kind, tenths |-> r.tenths, msg |-> r.msg]

InitParse ==
    /\ overflow_checks \in BOOLEAN
    /\ s \in BytesUpTo(MaxLen) \cup LongInputs
    /\ strict = NoResult /\ fast = NoResult /\ shown = << >>
    /\ row = NoRow /\ t = 0
    /\ StatsIdle /\ MainIdle

CallParseStrict ==
    /\ strict.kind = "none"
    /\ strict' = Outcome(parse_strict(s), overflow_checks)
    /\ UNCHANGED <<overflow_checks, s, fast, shown, row, t, statsVars, mainVars>>

CallParse ==
    /\ fast.kind = "none"
    /\ LET r == Temperature_parse(s)
       IN  fast' = Outcome([kind |-> "Ok", tenths |-> r.tenths,
                            msg |-> "", ovf |-> r.ovf], overflow_checks)
    /\ UNCHANGED <<overflow_checks, s, strict, shown, row, t, statsVars, mainVars>>

\* t.to_string() of the strict result, as test_temperature calls it
CallDisplay ==
    /\ strict.kind = "Ok"
    /\ shown = << >>
    /\ shown' = Temperature_fmt(strict.tenths)
    /\ UNCHANGED <<overflow_checks, s, strict, fast, row, t, statsVars, mainVars>>

NextParse == CallParseStrict \/ CallParse \/ CallDisplay

SpecParse == InitParse /\ [][NextParse]_vars

(***************************************************************************)
(* Row::parse on bounded lines.                                            *)
(***************************************************************************)
\* "a;1.0", "ab;-1.9", "a-1;1.9" (a name with a sign and a digit),
\* "a;b;1.0" (two separators), "Hamburg;12.0" and "x;214748364.8" (one
\* past i32::MAX tenths)
RowInputs ==
    { <<97, 59, 49, 46, 48>>,
      <<97, 98, 59, 45, 49, 46, 57>>,
      <<97, 45, 49, 59, 49, 46, 57>>,
      <<97, 59, 98, 59, 49, 46, 48>>,
      <<72, 97, 109, 98, 117, 114, 103, 59, 49, 50, 46, 48>>,
      <<120, 59, 50, 49, 52, 55, 52, 56, 51, 54, 52, 46, 56>> }

InitRow ==
    /\ overflow_checks \in BOOLEAN
    /\ s \in BytesUpTo(MaxLen) \cup RowInputs
    /\ strict = NoResult /\ fast = NoResult /\ shown = << >>
    /\ row = NoRow /\ t = 0
    /\ StatsIdle /\ MainIdle

\* Row::parse(s): None, Some(Row), or the panic of an overflow in
\* Temperature::parse under overflow checks
CallRowParse ==
    /\ row.kind = "none"
    /\ LET p == PositionFrom(s, 1)
           r == Row_parse(s)
       IN  row' = IF /\ p # 0
                     /\ Temperature_parse(SubSeq(s, p, Len(s))).ovf
                     /\ overflow_checks
                  THEN [kind |-> "panic", some |-> FALSE, city |-> << >>, temp |-> 0]
                  ELSE [kind |-> "returned", some |-> r.some,
                        city |-> r.city, temp |-> r.temp]
    /\ UNCHANGED <<overflow_checks, s, strict, fast, shown, t, statsVars, mainVars>>

NextRow == CallRowParse

SpecRow == InitRow /\ [][NextRow]_vars

(***************************************************************************)
(* Display of a Temperature, and the parsers on what it wrote.             *)
(***************************************************************************)
\* the largest magnitude (tenths) of the small temperatures displayed
MaxTenths == 30

\* the small temperatures, i32::MAX and i32::MIN, -i32::MAX, and the
\* 1234567890 of test_temperature
ShowTemps ==
    ((-MaxTenths)..MaxTenths) \cup {I32Max, -I32Max, I32Min, 1234567890}

InitShow ==
    /\ overflow_checks \in BOOLEAN
    /\ t \in ShowTemps
    /\ s = << >> /\ strict = NoResult /\ fast = NoResult /\ shown = << >>
    /\ row = NoRow
    /\ StatsIdle /\ MainIdle

\* t.to_string(); the abs() of i32::MIN panics under overflow checks, which
\* ends the run
ShowTemperature ==
    /\ shown = << >> /\ strict.kind = "none"
    /\ IF t = I32Min /\ overflow_checks
       THEN /\ strict' = [kind |-> "panic", tenths |-> 0, msg |-> ""]
            /\ UNCHANGED shown
       ELSE /\ shown' = Temperature_fmt(t)
            /\ UNCHANGED strict
    /\ UNCHANGED <<overflow_checks, s, fast, row, t, statsVars, mainVars>>

\* Temperature::parse_strict of the rendering
ParseShownStrict ==
    /\ shown # << >> /\ strict.kind = "none"
    /\ strict' = Outcome(parse_strict(shown), overflow_checks)
    /\ UNCHANGED <<overflow_checks, s, fast, shown, row, t, statsVars, mainVars>>

\* Temperature::parse of the rendering
ParseShown ==
    /\ shown # << >> /\ fast.kind = "none"
    /\ LET r == Temperature_parse(shown)
       IN  fast' = Outcome([kind |-> "Ok", tenths |-> r.tenths,
                            msg |-> "", ovf |-> r.ovf], overflow_checks)
    /\ UNCHANGED <<overflow_checks, s, strict, shown, row, t, statsVars, mainVars>>

NextShow == ShowTemperature \/ ParseShownStrict \/ ParseShown

SpecShow == InitShow /\ [][NextShow]_vars

(***************************************************************************)
(* One Stats accumulator on bounded values.                                *)
(***************************************************************************)
\* the most values one accumulator incorporates
MaxCount == 3

\* the temperatures (tenths) fed to the accumulator
Temps == {-13, -12, 0, 12, 13}

\* the Stats a worker holds after the values vs (not empty)
RECURSIVE StatsFrom(_, _, _)
StatsFrom(acc, vs, i) ==
    IF i > Len(vs) THEN acc ELSE StatsFrom(update_row(acc, vs[i]), vs, i + 1)

StatsOf(vs) == StatsFrom(Stats_new(vs[1]), vs, 2)

InitStats ==
    /\ \E v \in Temps : st = Stats_new(v) /\ hist = <<v>>
    /\ fin = NoFinal
    /\ overflowed = "no"
    /\ ParseIdle /\ MainIdle

UpdateRow ==
    /\ ~fin.some
    /\ Len(hist) < MaxCount
    /\ \E v \in Temps :
          /\ st' = update_row(st, v)
          /\ hist' = Append(hist, v)
    /\ UNCHANGED <<fin, overflowed, parseVars, mainVars>>

UpdateStats ==
    /\ ~fin.some
    /\ \E k \in 1..(MaxCount - Len(hist)) : \E vs \in [1..k -> Temps] :
          /\ st' = update_stats(st, StatsOf(vs))
          /\ hist' = hist \o vs
    /\ UNCHANGED <<fin, overflowed, parseVars, mainVars>>

Finalize ==
    /\ ~fin.some
    /\ LET f == finalize(st)
       IN  fin' = [some |-> TRUE, mean |-> f.mean, min |-> f.min, max |-> f.max]
    /\ UNCHANGED <<st, hist, overflowed, parseVars, mainVars>>

NextStats == UpdateRow \/ UpdateStats \/ Finalize

SpecStats == InitStats /\ [][NextStats]_vars

(***************************************************************************)
(* One Stats under updates and merges of any temperature the parser can    *)
(* return, the largest included, so that the i32 total can overflow: the   *)
(* addition then panics (overflow checks on) or wraps (off).               *)
(***************************************************************************)
\* the short temperatures, and "214748364.7" and "-214748364.7"
WideTemps == Temps \cup {I32Max, -I32Max}

\* whether an addition overflows while vs[i..] are added to acc in turn
RECURSIVE SumOvfFrom(_, _, _)
SumOvfFrom(acc, vs, i) ==
    /\ i <= Len(vs)
    /\ \/ AddOvf(acc, vs[i])
       \/ SumOvfFrom(Add32(acc, vs[i]), vs, i + 1)

\* whether building the Stats of vs (new on vs[1], update_row on the rest)
\* overflows
StatsOvf(vs) == SumOvfFrom(vs[1], vs, 2)

InitSum ==
    /\ overflow_checks \in BOOLEAN
    /\ \E v \in WideTemps : st = Stats_new(v) /\ hist = <<v>>
    /\ fin = NoFinal
    /\ overflowed = "no"
    /\ s = << >> /\ strict = NoResult /\ fast = NoResult /\ shown = << >>
    /\ row = NoRow /\ t = 0
    /\ MainIdle

\* update_row: self.total += temp panics or wraps when it overflows
SumUpdateRow ==
    /\ ~fin.some /\ overflowed # "panicked"
    /\ Len(hist) < MaxCount
    /\ \E v \in WideTemps :
          IF AddOvf(st.total, v) /\ overflow_checks
          THEN /\ overflowed' = "panicked"
               /\ UNCHANGED <<st, hist>>
          ELSE /\ st' = update_row(st, v)
               /\ hist' = Append(hist, v)
               /\ overflowed' = IF AddOvf(st.total, v) THEN "wrapped" ELSE overflowed
    /\ UNCHANGED <<fin, parseVars, mainVars>>

\* update_stats with the Stats another map holds for the key, itself built
\* by the same additions
SumUpdateStats ==
    /\ ~fin.some /\ overflowed # "panicked"
    /\ \E k \in 1..(MaxCount - Len(hist)) : \E vs \in [1..k -> WideTemps] :
          LET ovf == StatsOvf(vs) \/ AddOvf(st.total, StatsOf(vs).total)
          IN  IF ovf /\ overflow_checks
              THEN /\ overflowed' = "panicked"
                   /\ UNCHANGED <<st, hist>>
              ELSE /\ st' = update_stats(st, StatsOf(vs))
                   /\ hist' = hist \o vs
                   /\ overflowed' = IF ovf THEN "wrapped" ELSE overflowed
    /\ UNCHANGED <<fin, parseVars, mainVars>>

SumFinalize ==
    /\ ~fin.some /\ overflowed # "panicked"
    /\ LET f == finalize(st)
       IN  fin' = [some |-> TRUE, mean |-> f.mean, min |-> f.min, max |-> f.max]
    /\ UNCHANGED <<st, hist, overflowed, parseVars, mainVars>>

NextSum == SumUpdateRow \/ SumUpdateStats \/ SumFinalize

SpecSum == InitSum /\ [][NextSum]_vars

(***************************************************************************)
(* main: process_data as a fork-join fold/reduce, then the summary.        *)
(***************************************************************************)
\* the most lines (newline-separated pieces before an optional final
\* newline) of a generated input buffer
MaxLines == 2

\* "b;1.2", "ab;-0.5", "b;1.3", and the malformed "" (empty), "ab1.0" (no
\* separator) and "b;7" (no fractional digit)
LinePool ==
    { <<98, 59, 49, 46, 50>>,
      <<97, 98, 59, 45, 48, 46, 53>>,
      <<98, 59, 49, 46, 51>>,
      << >>,
      <<97, 98, 49, 46, 48>>,
      <<98, 59, 55>> }

\* the lines joined by newline bytes
RECURSIVE JoinFrom(_, _)
JoinFrom(ls, i) ==
    IF i > Len(ls) THEN << >>
    ELSE IF i = Len(ls) THEN ls[i]
    ELSE ls[i] \o <<Newline>> \o JoinFrom(ls, i + 1)

Join(ls) == JoinFrom(ls, 1)

\* "Hamburg;12.0\nBerlin;-3.5\nHamburg;14.0\n"
ExampleData ==
    <<72, 97, 109, 98, 117, 114, 103, 59, 49, 50, 46, 48, 10,
      66, 101, 114, 108, 105, 110, 59, 45, 51, 46, 53, 10,
      72, 97, 109, 98, 117, 114, 103, 59, 49, 52, 46, 48, 10>>

\* the buffers: up to MaxLines pool lines, with or without a final newline,
\* and the example
Buffers ==
    LET joined == {Join(ls) : ls \in UNION {[1..k -> LinePool] : k \in 0..MaxLines}}
    IN  joined \cup {d \o <<Newline>> : d \in joined} \cup {ExampleData}

\* the lines of the buffer, as par_split and split yield them
Lines == SplitLines(data)

\* rayon's add(left, right) of two partial sums: [left, right].sum(), which
\* is the Sum impl of ResultsMap
RayonAdd(left, right) == sum(<<left, right>>)

\* A work unit of the fold: the lines lo..hi-1 of the buffer, the next line
\* pos to fold, and the private map.  Once its fold is complete the map is a
\* partial sum (st = "summed"), which the reduce combines.  leaves and got
\* are history: the units a partial sum was made of (by their first line)
\* and the lines folded into the map.
NewUnit(lo, hi) ==
    [lo |-> lo, hi |-> hi, pos |-> lo, got |-> {}, leaves |-> {lo},
     map |-> EmptyMap, st |-> "fold"]

InitMain ==
    /\ data \in Buffers
    /\ units = {NewUnit(1, Len(SplitLines(data)) + 1)}
    /\ merged_results = EmptyMap
    /\ pc = "reduce"
    /\ summary_results = << >>
    /\ output = << >>
    /\ ParseIdle /\ StatsIdle

\* the guards of the steps of process_data
CanSplit(u) == u.st = "fold" /\ u.pos = u.lo /\ u.hi - u.lo >= 2

CanFold(u) == u.st = "fold" /\ u.pos < u.hi

CanComplete(u) == u.st = "fold" /\ u.pos = u.hi

CanReduce(u, v) == u # v /\ u.st = "summed" /\ v.st = "summed"

\* a return as soon as one partial sum is ready
CanReturnFirstSum(u) == u \in units /\ u.st = "summed"

CanReturn(u) == units = {u} /\ u.st = "summed"

\* a split whose right part begins one line early
SplitUnitOverlap ==
    /\ pc = "reduce"
    /\ \E u \in units : \E mid \in (u.lo + 1)..(u.hi - 1) :
          /\ CanSplit(u)
          /\ units' = (units \ {u}) \cup {NewUnit(u.lo, mid), NewUnit(mid - 1, u.hi)}
    /\ UNCHANGED <<data, merged_results, pc, summary_results, output, parseVars, statsVars>>

\* par_split: a unit that has not begun is split in two at a newline
SplitUnit ==
    /\ pc = "reduce"
    /\ \E u \in units : \E mid \in (u.lo + 1)..(u.hi - 1) :
          /\ CanSplit(u)
          /\ units' = (units \ {u}) \cup {NewUnit(u.lo, mid), NewUnit(mid, u.hi)}
    /\ UNCHANGED <<data, merged_results, pc, summary_results, output, parseVars, statsVars>>

\* the fold closure on the unit's next line
FoldStep ==
    /\ pc = "reduce"
    /\ \E u \in units :
          /\ CanFold(u)
          /\ units' = (units \ {u}) \cup
                {[u EXCEPT !.map = FoldLine(u.map, Lines[u.pos]),
                           !.got = u.got \cup {u.pos},
                           !.pos = u.pos + 1]}
    /\ UNCHANGED <<data, merged_results, pc, summary_results, output, parseVars, statsVars>>

\* the unit's fold is complete: its map is consumed by the sum, which adds
\* it to the empty sum the folder starts from
CompleteFold ==
    /\ pc = "reduce"
    /\ \E u \in units :
          /\ CanComplete(u)
          /\ units' = (units \ {u}) \cup
                {[u EXCEPT !.map = RayonAdd(EmptyMap, u.map), !.st = "summed"]}
    /\ UNCHANGED <<data, merged_results, pc, summary_results, output, parseVars, statsVars>>

\* the reduce of two partial sums, whichever two are ready, either one as
\* the receiver
Reduce ==
    /\ pc = "reduce"
    /\ \E u \in units : \E v \in units :
          /\ CanReduce(u, v)
          /\ units' = (units \ {u, v}) \cup
                {[lo |-> 0, hi |-> 0, pos |-> 0,
                  got |-> u.got \cup v.got,
                  leaves |-> u.leaves \cup v.leaves,
                  map |-> RayonAdd(u.map, v.map), st |-> "summed"]}
    /\ UNCHANGED <<data, merged_results, pc, summary_results, output, parseVars, statsVars>>

\* process_data returns the one sum left
Return ==
    /\ pc = "reduce"
    /\ \E u \in units :
          /\ CanReturn(u)
          /\ merged_results' = u.map
    /\ pc' = "collect"
    /\ UNCHANGED <<data, units, summary_results, output, parseVars, statsVars>>

\* the orders in which a hash map may be iterated
Orders(m) ==
    {o \in [1..Cardinality(DOMAIN m) -> DOMAIN m] :
        \A i, j \in 1..Cardinality(DOMAIN m) : i # j => o[i] # o[j]}

\* the vector collected from the map m iterated in the order o
Collected(m, o) ==
    [i \in 1..Len(o) |-> [city |-> o[i], stats |-> finalize(m[o[i]])]]

\* merged_results.into_iter().map(finalize).collect()
Collect ==
    /\ pc = "collect"
    /\ \E o \in Orders(merged_results) : summary_results' = Collected(merged_results, o)
    /\ pc' = "sort"
    /\ UNCHANGED <<data, units, merged_results, output, parseVars, statsVars>>

\* a.0.cmp(&b.0) on two BStrings: the lexicographic order of the bytes
RECURSIVE CmpFrom(_, _, _)
CmpFrom(a, b, i) ==
    IF i > Len(a) /\ i > Len(b) THEN "Equal"
    ELSE IF i > Len(a) THEN "Less"
    ELSE IF i > Len(b) THEN "Greater"
    ELSE IF a[i] < b[i] THEN "Less"
    ELSE IF a[i] > b[i] THEN "Greater"
    ELSE CmpFrom(a, b, i + 1)

\* a comparison by length before content
CmpLengthFirst(a, b) ==
    IF Len(a) < Len(b) THEN "Less"
    ELSE IF Len(a) > Len(b) THEN "Greater"
    ELSE CmpFrom(a, b, 1)

Cmp(a, b) == CmpFrom(a, b, 1)

\* sort_unstable_by with that comparison, as an insertion sort
RECURSIVE InsertSorted(_, _, _)
InsertSorted(sorted, x, i) ==
    IF i > Len(sorted) THEN Append(sorted, x)
    ELSE IF Cmp(x.city, sorted[i].city) = "Less"
         THEN SubSeq(sorted, 1, i - 1) \o <<x>> \o SubSeq(sorted, i, Len(sorted))
    ELSE InsertSorted(sorted, x, i + 1)

RECURSIVE SortFrom(_, _, _)
SortFrom(sorted, v, i) ==
    IF i > Len(v) THEN sorted
    ELSE SortFrom(InsertSorted(sorted, v[i], 1), v, i + 1)

SortByCity(v) == SortFrom(<< >>, v, 1)

Sort ==
    /\ pc = "sort"
    /\ summary_results' = SortByCity(summary_results)
    /\ pc' = "print"
    /\ UNCHANGED <<data, units, merged_results, output, parseVars, statsVars>>

\* a FinalStats written mean first
FinalStats_fmt_mean_first(f) ==
    Temperature_fmt(f.mean) \o <<47>> \o Temperature_fmt(f.min) \o <<47>> \o Temperature_fmt(f.max)

\* impl fmt::Display for FinalStats: "{}/{}/{}" of min, mean, max
FinalStats_fmt(f) ==
    Temperature_fmt(f.min) \o <<47>> \o Temperature_fmt(f.mean) \o <<47>> \o Temperature_fmt(f.max)

\* the print loop: comma, city, "=", stats for each entry.  A city of ASCII
\* bytes, as all here are, is written as its bytes.
RECURSIVE PrintFrom(_, _)
PrintFrom(v, i) ==
    IF i > Len(v) THEN << >>
    ELSE (IF i = 1 THEN << >> ELSE <<44, 32>>)
         \o v[i].city \o <<61>> \o FinalStats_fmt(v[i].stats)
         \o PrintFrom(v, i + 1)

\* "{", the entries, "}" and the newline of println!
Printed(v) == <<123>> \o PrintFrom(v, 1) \o <<125, Newline>>

PrintSummary ==
    /\ pc = "print"
    /\ output' = Printed(summary_results)
    /\ pc' = "done"
    /\ UNCHANGED <<data, units, merged_results, summary_results, parseVars, statsVars>>

Next ==
    \/ SplitUnit \/ FoldStep \/ CompleteFold \/ Reduce \/ Return
    \/ Collect \/ Sort \/ PrintSummary

Init == InitMain

Spec == Init /\ [][Next]_vars

\* The run under its scheduling: rayon's workers and the main thread keep
\* running while a step is possible (no step waits on anything but the
\* steps before it), so a fold step, the completion of a fold, a reduce,
\* the return and each step of main that stays possible is taken.  Whether
\* a unit is split is rayon's choice: no fairness for SplitUnit.
\* FoldFair is WF_vars(FoldStep) written out, with the guard of FoldStep
\* for its ENABLED.
FoldEnabled == pc = "reduce" /\ \E u \in units : CanFold(u)

FoldFair == []<>(~FoldEnabled) \/ []<><<FoldStep>>_vars

FairSpec ==
    /\ Spec
    /\ FoldFair
    /\ WF_vars(CompleteFold) /\ WF_vars(Reduce) /\ WF_vars(Return)
    /\ WF_vars(Collect) /\ WF_vars(Sort) /\ WF_vars(PrintSummary)

(***************************************************************************)
(* The strict decimal grammar -?[0-9]+\.[0-9], stated on the bytes.        *)
(***************************************************************************)
\* the bytes after the optional sign
Unsigned(x) == IF Len(x) > 0 /\ x[1] = 45 THEN Tail(x) ELSE x

MatchesGrammar(x) ==
    LET body == Unsigned(x)
        n    == Len(body)
    IN  /\ n >= 3
        /\ \A i \in 1..(n - 2) : body[i] \in 48..57
        /\ body[n - 1] = 46
        /\ body[n] \in 48..57

\* the way Display writes a value: no zero before the integer part unless
\* it is the integer part, and no sign on zero
Canonical(x) ==
    LET body == Unsigned(x)
    IN  /\ MatchesGrammar(x)
        /\ (Len(body) > 3 => body[1] # 48)
        /\ ~(x[1] = 45 /\ \A i \in 1..Len(body) : body[i] \in {46, 48})

\* "2147483647", the digits of i32::MAX
MaxDigits == <<50, 49, 52, 55, 52, 56, 51, 54, 52, 55>>

\* the magnitude of a canonical string, in tenths, is at most i32::MAX
FitsI32(x) ==
    LET body == Unsigned(x)
        ds   == SubSeq(body, 1, Len(body) - 2) \o <<body[Len(body)]>>
    IN  \/ Len(ds) < 10
        \/ /\ Len(ds) = 10
           /\ \/ ds = MaxDigits
              \/ \E i \in 1..10 : /\ ds[i] < MaxDigits[i]
                                  /\ \A j \in 1..(i - 1) : ds[j] = MaxDigits[j]

(***************************************************************************)
(* C2 as stated: for every byte string matching the strict grammar,        *)
(* parse_strict succeeds and Display of the result is exactly the string.  *)
(* Stated here on the strings whose magnitude an i32 holds, where no       *)
(* overflow is in play: refuted there by "-0.0" (shown as "0.0") and by    *)
(* "00.1" (shown as "0.1").  Past that range ("214748364.8") the parse     *)
(* overflows, and the claim fails as well.                                 *)
(***************************************************************************)
C2_RoundTripEveryMatch ==
    (MatchesGrammar(s) /\ FitsI32(s)) =>
        /\ strict.kind \in {"none", "Ok"}
        /\ (shown # << >> => shown = s)

(***************************************************************************)
(* C2, amended: for every byte string matching the strict grammar that is  *)
(* canonical (no redundant leading zero, no negative zero) and whose       *)
(* magnitude in tenths fits an i32, parse_strict succeeds and Display of   *)
(* the result is exactly the string.                                       *)
(***************************************************************************)
C2_RoundTripCanonical ==
    (Canonical(s) /\ FitsI32(s)) =>
        /\ strict.kind \in {"none", "Ok"}
        /\ (shown # << >> => shown = s)

\* "-1.9" was parsed and displayed
C2_Witness ==
    /\ s = <<45, 49, 46, 57>>
    /\ strict.kind = "Ok" /\ strict.tenths = -19
    /\ shown = s

(***************************************************************************)
(* C3 as stated: parse_strict returns Ok exactly for the byte strings      *)
(* matching -?[0-9]+\.[0-9] and an error for every other one.  Refuted by  *)
(* "-.1": after the sign the automaton is in state Digit, which takes the  *)
(* '.' without having seen a digit.                                        *)
(***************************************************************************)
C3_StrictValidatesGrammar ==
    strict.kind \in {"Ok", "Err"} => (strict.kind = "Ok" <=> MatchesGrammar(s))

(***************************************************************************)
(* C4: on every byte string on which parse_strict returns Ok(t), parse     *)
(* returns the same t.                                                     *)
(***************************************************************************)
C4_ParsersAgree ==
    (strict.kind = "Ok" /\ fast.kind # "none") =>
        (fast.kind = "Ok" /\ fast.tenths = strict.tenths)

\* both parsers have read "-1.9"
C4_Witness ==
    /\ s = <<45, 49, 46, 57>>
    /\ strict.kind = "Ok" /\ fast.kind = "Ok" /\ fast.tenths = -19

(***************************************************************************)
(* C5: Stats::finalize gives as mean the sum X (tenths) over the count N   *)
(* rounded to the nearest integer, an exact half going away from zero for  *)
(* a positive and for a negative sum: 25 over 2 is 13, -25 over 2 is -13.  *)
(***************************************************************************)
AbsVal(x) == IF x < 0 THEN -x ELSE x

C5_MeanRoundsHalfAwayFromZero ==
    fin.some =>
        LET X == st.total
            N == st.count
            m == fin.mean
        IN  /\ 2 * AbsVal((N * m) - X) <= N
            /\ (2 * AbsVal((N * m) - X) = N => AbsVal(m) * N > AbsVal(X))
            /\ (X = 25 /\ N = 2 => m = 13)
            /\ (X = -25 /\ N = 2 => m = -13)

\* -1.2 and -1.3 were incorporated and finalised to a mean of -1.3
C5_Witness ==
    /\ fin.some
    /\ st.total = -25 /\ st.count = 2
    /\ fin.mean = -13

(***************************************************************************)
(* The input as text: lines, records, and what a record says.              *)
(***************************************************************************)
\* where the lines of d start: at 1 and after every newline byte
LineStarts(d) == {1} \cup {i + 1 : i \in {j \in 1..Len(d) : d[j] = 10}}

\* the line of d that starts at a: up to the next newline byte or the end
LineAt(d, a) ==
    LET ends == {j \in a..Len(d) : d[j] = 10} \cup {Len(d) + 1}
        e    == CHOOSE j \in ends : \A k \in ends : j <= k
    IN  SubSeq(d, a, e - 1)

HasSep(l) == \E i \in 1..Len(l) : l[i] = 59

FirstSep(l) == CHOOSE i \in 1..Len(l) : l[i] = 59 /\ \A j \in 1..(i - 1) : l[j] # 59

NameOf(l) == SubSeq(l, 1, FirstSep(l) - 1)

ValuePart(l) == SubSeq(l, FirstSep(l) + 1, Len(l))

\* name;decimal
WellFormedLine(l) == HasSep(l) /\ MatchesGrammar(ValuePart(l))

\* every line is a record, but for the empty line after a final newline (or
\* the one line of an empty input)
WellFormed(d) ==
    \A a \in LineStarts(d) :
        \/ WellFormedLine(LineAt(d, a))
        \/ (a = Len(d) + 1 /\ LineAt(d, a) = << >>)

\* the number a sequence of digit bytes writes
RECURSIVE NatOfDigits(_)
NatOfDigits(ds) ==
    IF ds = << >> THEN 0
    ELSE 10 * NatOfDigits(SubSeq(ds, 1, Len(ds) - 1)) + (ds[Len(ds)] - 48)

IsDigitByte(b) == b \in 48..57

\* the tenths a decimal of the grammar denotes
DecTenths(x) ==
    LET n == NatOfDigits(SelectSeq(Unsigned(x), IsDigitByte))
    IN  IF x[1] = 45 THEN -n ELSE n

\* the tenths the relaxed parser is documented to read from any bytes: the
\* digits, whatever lies between them, negative if there is a '-'
RelaxedTenths(x) ==
    LET n == NatOfDigits(SelectSeq(x, IsDigitByte))
    IN  IF \E i \in 1..Len(x) : x[i] = 45 THEN -n ELSE n

\* the sum of f[a] over the a in S
RECURSIVE SumOver(_, _)
SumOver(S, f) ==
    IF S = {} THEN 0
    ELSE LET a == CHOOSE b \in S : TRUE IN f[a] + SumOver(S \ {a}, f)

Least(S) == CHOOSE v \in S : \A w \in S : v <= w

Greatest(S) == CHOOSE v \in S : \A w \in S : v >= w

\* m is X / N rounded to the nearest integer, a half away from zero
IsRounded(m, X, N) ==
    /\ 2 * AbsVal((N * m) - X) <= N
    /\ (2 * AbsVal((N * m) - X) = N => AbsVal(m) * N > AbsVal(X))

\* a is below b in the lexicographic order of the bytes
BytesLess(a, b) ==
    \E i \in 1..(Len(a) + 1) :
        /\ \A j \in 1..(i - 1) : j <= Len(b) /\ a[j] = b[j]
        /\ i <= Len(b)
        /\ (i <= Len(a) => a[i] < b[i])

\* the folded lines of a partial sum, in input order, in one sequential fold
RECURSIVE FoldSet(_, _)
FoldSet(results, S) ==
    IF S = {} THEN results
    ELSE LET i == Least(S) IN FoldSet(FoldLine(results, Lines[i]), S \ {i})

AfterReduce == pc \in {"collect", "sort", "print", "done"}

(***************************************************************************)
(* C1: however the lines are partitioned into work units and in whatever   *)
(* order and grouping the partial maps are merged, every partial sum holds *)
(* what one sequential fold of its lines gives, the map process_data       *)
(* returns is the one the single-threaded process_data computes, and the   *)
(* bytes printed are those printed from the single-threaded result.        *)
(***************************************************************************)
C1_ParallelEqualsSequential ==
    /\ \A u \in units : u.st = "summed" => u.map = FoldSet(EmptyMap, u.got)
    /\ AfterReduce => merged_results = process_data(data)
    /\ pc = "done" =>
          LET m == process_data(data)
              o == CHOOSE x \in Orders(m) : TRUE
          IN  output = Printed(SortByCity(Collected(m, o)))

\* three work units, one per line, two of them holding the same city, were
\* merged into the result
C1_Witness ==
    /\ AfterReduce
    /\ \E u \in units : u.leaves = {1, 2, 3}
    /\ \E k \in DOMAIN merged_results : merged_results[k].count = 2 /\ merged_results[k].min < merged_results[k].max

(***************************************************************************)
(* C6 as stated: whenever the input holds a malformed line (an empty line  *)
(* other than the one after a final newline, a line without separator, a   *)
(* value part off the grammar) the run aborts and no summary is produced.  *)
(***************************************************************************)
C6_MalformedInputAborts == ~WellFormed(data) => output = << >>

(***************************************************************************)
(* C6, amended: a malformed line is not detected and never aborts the run. *)
(* A line without separator (an empty line, wherever it stands, included)  *)
(* is skipped without effect; a line with a separator is aggregated under  *)
(* the bytes before the first one with the value the relaxed parser reads  *)
(* from the rest (its digits in order, negative if it holds a '-'); the    *)
(* run goes on to print the summary of the lines so read.                  *)
(***************************************************************************)
SepLines(d) == {a \in LineStarts(d) : HasSep(LineAt(d, a))}

NamedLines(d, k) == {a \in SepLines(d) : NameOf(LineAt(d, a)) = k}

\* some step of the run can be taken
CanStep ==
    \/ /\ pc = "reduce"
       /\ \E u \in units :
             CanFold(u) \/ CanComplete(u) \/ CanReturn(u)
                \/ \E v \in units : CanReduce(u, v)
    \/ pc \in {"collect", "sort", "print"}

C6_MalformedLinesSkippedOrMisread ==
    /\ pc # "done" => CanStep
    /\ pc = "done" => output # << >>
    /\ AfterReduce =>
          LET Val == [a \in SepLines(data) |->
                        RelaxedTenths(ValuePart(LineAt(data, a)))]
          IN  /\ DOMAIN merged_results = {NameOf(LineAt(data, a)) : a \in SepLines(data)}
              /\ \A k \in DOMAIN merged_results :
                    /\ merged_results[k].count = Cardinality(NamedLines(data, k))
                    /\ merged_results[k].total = SumOver(NamedLines(data, k), Val)

\* "ab1.0\nb;7": the first line is skipped, the second read as 0.7, and the
\* summary "{b=0.7/0.7/0.7}" printed
C6_Witness ==
    /\ pc = "done"
    /\ data = <<97, 98, 49, 46, 48, 10, 98, 59, 55>>
    /\ output = <<123, 98, 61, 48, 46, 55, 47, 48, 46, 55, 47, 48, 46, 55, 125, 10>>

(***************************************************************************)
(* C7: for a well-formed input that ends with a newline, process_data      *)
(* returns the map it returns for the input without that newline; the      *)
(* empty line after it makes no key and changes no statistics.             *)
(***************************************************************************)
EndsWithNewline(d) == Len(d) > 0 /\ d[Len(d)] = 10

C7_TrailingEmptyLineIgnored ==
    (WellFormed(data) /\ EndsWithNewline(data)) =>
        /\ AfterReduce =>
              /\ merged_results = process_data(SubSeq(data, 1, Len(data) - 1))
              /\ << >> \notin DOMAIN merged_results
        /\ \A u \in units :
              (u.st = "summed" /\ Len(Lines) \in u.got) =>
                  u.map = FoldSet(EmptyMap, u.got \ {Len(Lines)})

\* "b;1.2\nb;1.3\n" was processed with the empty last line in a work unit of
\* its own
C7_Witness ==
    /\ AfterReduce
    /\ data = <<98, 59, 49, 46, 50, 10, 98, 59, 49, 46, 51, 10>>
    /\ \E u \in units : 3 \in u.leaves
    /\ DOMAIN merged_results = {<<98>>}

(***************************************************************************)
(* The summary a well-formed input calls for, as text.                     *)
(***************************************************************************)
Names(d) == {NameOf(LineAt(d, a)) : a \in SepLines(d)}

ValueAt(d) == [a \in SepLines(d) |-> DecTenths(ValuePart(LineAt(d, a)))]

ValuesOf(d, k) == {ValueAt(d)[a] : a \in NamedLines(d, k)}

MeanOf(d, k) ==
    CHOOSE m \in Least(ValuesOf(d, k))..Greatest(ValuesOf(d, k)) :
        IsRounded(m, SumOver(NamedLines(d, k), ValueAt(d)),
                  Cardinality(NamedLines(d, k)))

RECURSIVE NatText(_)
NatText(n) == IF n < 10 THEN <<48 + n>> ELSE NatText(n \div 10) \o <<48 + (n % 10)>>

\* a value in tenths with one fractional digit, signed only if negative
DecimalText(v) ==
    (IF v < 0 THEN <<45>> ELSE << >>)
        \o NatText(AbsVal(v) \div 10) \o <<46, 48 + (AbsVal(v) % 10)>>

\* name=min/mean/max
EntryText(d, k) ==
    k \o <<61>> \o DecimalText(Least(ValuesOf(d, k)))
      \o <<47>> \o DecimalText(MeanOf(d, k))
      \o <<47>> \o DecimalText(Greatest(ValuesOf(d, k)))

\* the names in increasing byte order
Ordered(S) ==
    CHOOSE o \in [1..Cardinality(S) -> S] :
        \A i, j \in 1..Cardinality(S) : i < j => BytesLess(o[i], o[j])

RECURSIVE EntriesFrom(_, _, _)
EntriesFrom(d, o, i) ==
    IF i > Len(o) THEN << >>
    ELSE (IF i = 1 THEN << >> ELSE <<44, 32>>)
         \o EntryText(d, o[i]) \o EntriesFrom(d, o, i + 1)

ExpectedOutput(d) ==
    <<123>> \o EntriesFrom(d, Ordered(Names(d)), 1) \o <<125, 10>>

\* "{Berlin=-3.5/-3.5/-3.5, Hamburg=12.0/13.0/14.0}\n"
ExampleOutput ==
    <<123, 66, 101, 114, 108, 105, 110, 61, 45, 51, 46, 53, 47, 45, 51, 46, 53,
      47, 45, 51, 46, 53, 44, 32, 72, 97, 109, 98, 117, 114, 103, 61, 49, 50,
      46, 48, 47, 49, 51, 46, 48, 47, 49, 52, 46, 48, 125, 10>>

(***************************************************************************)
(* C8: for every well-formed input the printed summary holds one entry per *)
(* distinct name, in byte order of the names, each with the minimum, the   *)
(* rounded mean round(sum / count) and the maximum of the values of the    *)
(* lines of that name, written min/mean/max; the example input gives       *)
(* {Berlin=-3.5/-3.5/-3.5, Hamburg=12.0/13.0/14.0}.                        *)
(***************************************************************************)
C8_SummaryOfWellFormedInput ==
    (pc = "done" /\ WellFormed(data)) =>
        /\ output = ExpectedOutput(data)
        /\ (data = ExampleData => output = ExampleOutput)

\* the example was processed and printed
C8_Witness ==
    /\ pc = "done"
    /\ data = ExampleData
    /\ output = ExampleOutput

(***************************************************************************)
(* C9: the summary main prints from is strictly increasing in the          *)
(* lexicographic byte order of its keys, so holds no key twice, and holds  *)
(* every key of the merged map, for every input and every schedule.        *)
(***************************************************************************)
C9_SummaryStrictlyIncreasing ==
    pc \in {"print", "done"} =>
        /\ Len(summary_results) = Cardinality(DOMAIN merged_results)
        /\ {summary_results[i].city : i \in 1..Len(summary_results)} = DOMAIN merged_results
        /\ \A i, j \in 1..Len(summary_results) :
              i < j => BytesLess(summary_results[i].city, summary_results[j].city)

\* a summary of the two cities "ab" and "b" was sorted
C9_Witness ==
    /\ pc = "print"
    /\ Len(summary_results) = 2
    /\ summary_results[1].city = <<97, 98>>
    /\ summary_results[2].city = <<98>>

(***************************************************************************)
(* C10: the empty map is an identity of merge on both sides: merging an    *)
(* empty map into a map m leaves m's keys and statistics as they are, and  *)
(* merging m into an empty receiver makes the receiver m; so for the sum   *)
(* that starts from an empty map.  Checked on every map a work unit holds  *)
(* and on the merged map.                                                  *)
(***************************************************************************)
EmptyIsIdentityFor(m) ==
    /\ merge(m, EmptyMap) = m
    /\ merge(EmptyMap, m) = m
    /\ sum(<<EmptyMap, m>>) = m
    /\ sum(<<m, EmptyMap>>) = m

C10_EmptyMapIsMergeIdentity ==
    /\ \A u \in units : EmptyIsIdentityFor(u.map)
    /\ EmptyIsIdentityFor(merged_results)

\* the map of "b;1.2" and the empty map of the empty last line, each folded
\* by a unit of its own, were merged
C10_Witness ==
    /\ data = <<98, 59, 49, 46, 50, 10>>
    /\ \E u \in units :
          /\ u.leaves = {1, 2}
          /\ u.st = "summed"
          /\ DOMAIN u.map = {<<98>>}

(***************************************************************************)
(* C11: merge is commutative and associative on the map contents, and      *)
(* update_stats on the statistics of one key: for the maps a, b, c that    *)
(* any three work units hold, merge(a, b) and merge(b, a) have the same    *)
(* keys and statistics and merge(merge(a, b), c) = merge(a, merge(b, c));  *)
(* for the statistics x, y, z these maps hold, update_stats(x, y) =        *)
(* update_stats(y, x) and update_stats(update_stats(x, y), z) =            *)
(* update_stats(x, update_stats(y, z)).                                    *)
(***************************************************************************)
UnitMaps == {u.map : u \in units}

UnitStats == UNION {{m[k] : k \in DOMAIN m} : m \in UnitMaps}

C11_MergeCommutativeAssociative ==
    /\ \A a \in UnitMaps : \A b \in UnitMaps :
          /\ DOMAIN merge(a, b) = DOMAIN merge(b, a)
          /\ merge(a, b) = merge(b, a)
          /\ \A c \in UnitMaps : merge(merge(a, b), c) = merge(a, merge(b, c))
    /\ \A x \in UnitStats : \A y \in UnitStats :
          /\ update_stats(x, y) = update_stats(y, x)
          /\ \A z \in UnitStats :
                update_stats(update_stats(x, y), z) = update_stats(x, update_stats(y, z))

\* three partial sums are ready, two of them with different statistics of
\* one city and the third with another city
C11_Witness ==
    \E u \in units : \E v \in units : \E w \in units :
        /\ u.st = "summed" /\ v.st = "summed" /\ w.st = "summed"
        /\ \E k \in DOMAIN u.map \cap DOMAIN v.map : u.map[k].min < v.map[k].min
        /\ \E k \in DOMAIN w.map : k \notin DOMAIN u.map

(***************************************************************************)
(* C12 as stated: after Stats::new and any sequence of update_row and      *)
(* update_stats calls, min is at most and max at least every incorporated  *)
(* value, each of them is one of these values, count is at least 1 and is  *)
(* the number of incorporated values, and total is their sum.  The exact   *)
(* sum can lie outside of 32 bits, so it is compared in two limbs of 16    *)
(* bits.                                                                   *)
(***************************************************************************)
Limb == 256 * 256

\* the exact sum of the values of vs, as <<high limb, low limb>>
ExactSum(vs) ==
    LET hi == SumOver(1..Len(vs), [i \in 1..Len(vs) |-> vs[i] \div Limb])
        lo == SumOver(1..Len(vs), [i \in 1..Len(vs) |-> vs[i] % Limb])
    IN  <<hi + (lo \div Limb), lo % Limb>>

TotalIsExact == ExactSum(hist) = <<st.total \div Limb, st.total % Limb>>

C12_StatsInvariant ==
    /\ st.count >= 1
    /\ st.count = Len(hist)
    /\ \A i \in 1..Len(hist) : st.min <= hist[i] /\ hist[i] <= st.max
    /\ \E i \in 1..Len(hist) : hist[i] = st.min
    /\ \E i \in 1..Len(hist) : hist[i] = st.max
    /\ TotalIsExact

(***************************************************************************)
(* C14 as stated: the running sum is never silently wrapped: an addition   *)
(* into the accumulator never wraps, and the stored total and count are    *)
(* the exact sum and the number of the incorporated values.                *)
(***************************************************************************)
C14_SumNeverWrapped ==
    /\ overflowed # "wrapped"
    /\ TotalIsExact
    /\ st.count = Len(hist)

(***************************************************************************)
(* C13: no entry of a map is ever dropped or reset by ingest or merge.     *)
(* In every step, the map a work unit held lives on in the unit that       *)
(* takes its place (the same unit after a fold step, the merged unit after *)
(* a reduce): every key stays, its count does not decrease, its min does   *)
(* not rise and its max does not fall.  The keys of a merged map are       *)
(* exactly the union of the keys of the two maps merged, and a key of both *)
(* has the sum of the two counts.  The map process_data returns is the     *)
(* last unit's.  (A map is a function of its keys, so a key is held once.) *)
(***************************************************************************)
Extends(a, b) ==
    /\ DOMAIN a \subseteq DOMAIN b
    /\ \A k \in DOMAIN a :
          /\ b[k].count >= a[k].count
          /\ b[k].min <= a[k].min
          /\ b[k].max >= a[k].max

MergedFrom(w, u, v) ==
    /\ u # v
    /\ w.leaves = u.leaves \cup v.leaves
    /\ DOMAIN w.map = DOMAIN u.map \cup DOMAIN v.map
    /\ \A k \in DOMAIN u.map \cap DOMAIN v.map :
          w.map[k].count = u.map[k].count + v.map[k].count

NoEntryLost ==
    /\ \A u \in units \ units' :
          /\ \E w \in units' \ units : u.leaves \subseteq w.leaves
          /\ \A w \in units' \ units :
                u.leaves \subseteq w.leaves => Extends(u.map, w.map)
    /\ \A w \in units' \ units :
          Cardinality(w.leaves) >= 2 =>
              \E u \in units \ units' : \E v \in units \ units' : MergedFrom(w, u, v)
    /\ merged_results' # merged_results =>
          \A u \in units : merged_results' = u.map

C13_NoEntryDroppedOrReset == [][NoEntryLost]_vars

\* the example's Hamburg and Berlin lines are in one merged map, Hamburg
\* with both its values
C13_Witness ==
    /\ data = ExampleData
    /\ pc = "reduce"
    /\ \E u \in units :
          /\ Cardinality(u.leaves) >= 2
          /\ Cardinality(DOMAIN u.map) = 2
          /\ \E k \in DOMAIN u.map : u.map[k].count = 2

(***************************************************************************)
(* C15: Row::parse splits a line at its first ';'.  For a line             *)
(* name;dec whose dec matches the strict grammar, the row's city is the    *)
(* bytes before the first ';' and its temp is what parse_strict(dec)       *)
(* returns (the ';' handed to the numeric scan has no effect); a line      *)
(* without ';' gives None.  Where the number overflows an i32, both        *)
(* parsers panic under overflow checks and wrap alike without them.        *)
(***************************************************************************)
C15_RowSplitsAtFirstSeparator ==
    row.kind # "none" =>
        /\ ~HasSep(s) => row.kind = "returned" /\ ~row.some
        /\ WellFormedLine(s) =>
              LET r == parse_strict(ValuePart(s))
              IN  IF r.ovf /\ overflow_checks
                  THEN row.kind = "panic"
                  ELSE /\ row.kind = "returned"
                       /\ row.some
                       /\ row.city = NameOf(s)
                       /\ r.kind = "Ok"
                       /\ row.temp = r.tenths

\* "a-1;1.9": the name holds a sign and a digit, the row is a-1 with 1.9
C15_Witness ==
    /\ s = <<97, 45, 49, 59, 49, 46, 57>>
    /\ row.kind = "returned"
    /\ row.some
    /\ row.city = <<97, 45, 49>>
    /\ row.temp = 19

(***************************************************************************)
(* C16: finalization (finalize and the sort of the summary) starts only    *)
(* after the reduce is complete: once main is past process_data, one       *)
(* partial sum is left, no unit is still folding, every line was folded    *)
(* and every unit's map was merged into it, and it is the map returned.    *)
(* And for every (finite) input the run reaches that point, and the end.   *)
(***************************************************************************)
ReduceComplete ==
    \E u \in units :
        /\ units = {u}
        /\ u.st = "summed"
        /\ u.got = 1..Len(Lines)
        /\ merged_results = u.map

C16_FinalizeAfterReduce ==
    /\ [](AfterReduce => ReduceComplete)
    /\ [](summary_results # << >> => AfterReduce)
    /\ <>AfterReduce
    /\ <>(pc = "done")

\* the summary of two cities is collected, of a map merged from two units
C16_Witness ==
    /\ pc = "sort"
    /\ Len(summary_results) = 2
    /\ \E u \in units : u.leaves = {1, 2} /\ ReduceComplete

(***************************************************************************)
(* C17: exactly-once accounting, under every schedule.  Every line is      *)
(* either still to be folded by exactly one unit or was folded into        *)
(* exactly one private map; a map holds one record for each line with a    *)
(* separator folded into it, no more (no line is folded twice) and no      *)
(* less; no two units share a private map (the sets of maps they were      *)
(* merged of are disjoint), so a map is changed by one unit at a time and  *)
(* merged once; the returned map holds one record for each such line of    *)
(* the input.                                                              *)
(***************************************************************************)
Pending(u) == IF u.st = "fold" THEN u.pos..(u.hi - 1) ELSE {}

Records(m) == SumOver(DOMAIN m, [k \in DOMAIN m |-> m[k].count])

SepIn(S) == Cardinality({i \in S : HasSep(Lines[i])})

C17_ExactlyOnce ==
    /\ \A u \in units :
          /\ u.got \cap Pending(u) = {}
          /\ Records(u.map) = SepIn(u.got)
    /\ \A u \in units : \A v \in units :
          u # v => /\ (u.got \cup Pending(u)) \cap (v.got \cup Pending(v)) = {}
                   /\ u.leaves \cap v.leaves = {}
    /\ UNION {u.got \cup Pending(u) : u \in units} = 1..Len(Lines)
    /\ AfterReduce => Records(merged_results) = SepIn(1..Len(Lines))

\* one unit is in the middle of its lines while another's map is already a
\* partial sum with a record
C17_Witness ==
    /\ pc = "reduce"
    /\ \E u \in units : \E v \in units :
          /\ u.st = "fold" /\ u.lo < u.pos /\ u.pos < u.hi
          /\ v.st = "summed" /\ Records(v.map) = 1

(***************************************************************************)
(* C18: the reverse round trip.  For every Temperature t other than        *)
(* i32::MIN tenths, what Display writes matches the strict grammar: a '-'  *)
(* first exactly when t is negative, then |t| div 10 in decimal, a '.',    *)
(* and the digit |t| mod 10; and parse_strict and parse of it both return  *)
(* t.                                                                      *)
(***************************************************************************)
C18_DisplayThenParse ==
    (t # I32Min /\ shown # << >>) =>
        /\ MatchesGrammar(shown)
        /\ (shown[1] = 45) <=> (t < 0)
        /\ shown = DecimalText(t)
        /\ strict.kind # "none" => (strict.kind = "Ok" /\ strict.tenths = t)
        /\ fast.kind # "none" => (fast.kind = "Ok" /\ fast.tenths = t)

\* -0.5 was displayed as "-0.5" and read back by both parsers
C18_Witness ==
    /\ t = -5
    /\ shown = <<45, 48, 46, 53>>
    /\ strict.kind = "Ok" /\ strict.tenths = -5
    /\ fast.kind = "Ok" /\ fast.tenths = -5

(***************************************************************************)
(* C19: for every Stats reached without an overflow of its total,          *)
(* finalize gives a mean between the extremes: min <= mean <= max.         *)
(***************************************************************************)
C19_MeanBetweenExtremes ==
    (fin.some /\ overflowed = "no") =>
        /\ fin.min <= fin.mean
        /\ fin.mean <= fin.max

\* three values up to i32::MAX, no overflow, the mean strictly between
C19_Witness ==
    /\ fin.some /\ overflowed = "no"
    /\ Len(hist) = 3
    /\ fin.max = I32Max
    /\ fin.min < fin.mean /\ fin.mean < fin.max

(***************************************************************************)
(* C20: ingest of a row with city k changes the entry of k only: in every  *)
(* fold step of a unit on a line with a separator, the unit's map gains    *)
(* the key k if it was absent, with Stats::new(temp), or has its entry of  *)
(* k replaced by update_row of it with temp; the set of the other keys and *)
(* the statistics of every other key are as before.  (On a line without a  *)
(* separator there is no row and the map is as before.)                    *)
(***************************************************************************)
IngestFrame ==
    \A u \in units \ units' : \A w \in units' \ units :
        (/\ u.st = "fold" /\ w.st = "fold"
         /\ w.lo = u.lo /\ w.hi = u.hi /\ w.pos = u.pos + 1) =>
            LET l == Lines[u.pos]
            IN  IF HasSep(l)
                THEN LET k    == NameOf(l)
                         temp == RelaxedTenths(ValuePart(l))
                     IN  /\ DOMAIN w.map = DOMAIN u.map \cup {k}
                         /\ \A j \in DOMAIN u.map \ {k} : w.map[j] = u.map[j]
                         /\ w.map[k] = IF k \in DOMAIN u.map
                                       THEN update_row(u.map[k], temp)
                                       ELSE Stats_new(temp)
                ELSE w.map = u.map

C20_IngestChangesOneEntry == [][IngestFrame]_vars

\* one unit has folded the three lines of the example: Berlin was inserted
\* beside Hamburg, and Hamburg updated beside Berlin
C20_Witness ==
    /\ data = ExampleData
    /\ \E u \in units :
          /\ u.st = "fold" /\ u.lo = 1 /\ u.pos = 4
          /\ Cardinality(DOMAIN u.map) = 2
          /\ \E k \in DOMAIN u.map : u.map[k].count = 2

=============================================================================
